---- MODULE Spec2Model ----
(***************************************************************************)
(* Model of the native module of fast-abi (native/src/lib.rs): the         *)
(* process-wide interface registry behind a mutex and the four exported    *)
(* functions loadAbi, encodeInput, decodeOutput and decodeInput, together  *)
(* with the tokenizer (host value -> Token) and the output formatter       *)
(* (Token -> host value) they are built from.                              *)
(*                                                                         *)
(* Text is a sequence of one-character strings, a byte string a sequence   *)
(* of numbers 0..255, a 256-bit integer a sequence of 32 bytes, most       *)
(* significant first (TLC's integers are 32 bits wide).                    *)
(*                                                                         *)
(* A fallible computation yields a record [st, e, v]:                      *)
(*   st = "ok"    and v the value,                                         *)
(*   st = "err"   and e the error of a Result::Err,                        *)
(*   st = "panic" and e the message of a Rust panic (unwrap, panic!,       *)
(*                 slice index out of range).                              *)
(***************************************************************************)
EXTENDS Integers, Sequences, FiniteSets, TLC

VARIABLES
    registry,   \* INSTANCE's HashMap<String, Contract>: id -> contract or NoContract
    poisoned,   \* the poison flag of INSTANCE's Mutex
    call,       \* the arguments of the last exported function called
    ret         \* what that call handed back to the host

vars == <<registry, poisoned, call, ret>>

----------------------------------------------------------------------------
(* Results *)

Ok(v) == [st |-> "ok", e |-> "", v |-> v]

Err(e) == [st |-> "err", e |-> e, v |-> <<>>]

Panic(e) == [st |-> "panic", e |-> e, v |-> <<>>]

\* Result::unwrap: an Err becomes a panic.
Unwrap(r) == IF r.st = "err" THEN Panic(r.e) ELSE r

----------------------------------------------------------------------------
(* Text and bytes *)

LowerHex == <<"0", "1", "2", "3", "4", "5", "6", "7", "8", "9", "a", "b", "c", "d", "e", "f">>

UpperHex == <<"0", "1", "2", "3", "4", "5", "6", "7", "8", "9", "A", "B", "C", "D", "E", "F">>

IsHexChar(c) == \E i \in 1..16 : LowerHex[i] = c \/ UpperHex[i] = c

HexVal(c) == (CHOOSE i \in 1..16 : LowerHex[i] = c \/ UpperHex[i] = c) - 1

IsDecChar(c) == \E i \in 1..10 : LowerHex[i] = c

Drop(s, n) == SubSeq(s, n + 1, Len(s))

Take(s, n) == SubSeq(s, 1, n)

Zeros(n) == [i \in 1..n |-> 0]

\* hex::encode: two lowercase digits per byte.
hex_encode(bytes) ==
    [i \in 1..(2 * Len(bytes)) |->
        LET b == bytes[(i + 1) \div 2]
        IN  IF i % 2 = 1 THEN LowerHex[(b \div 16) + 1] ELSE LowerHex[(b % 16) + 1]]

\* hex::decode: an odd length or a character that is no hex digit is an Err.
hex_decode(s) ==
    IF Len(s) % 2 = 1 THEN Err("OddLength")
    ELSE IF \E i \in 1..Len(s) : ~IsHexChar(s[i]) THEN Err("InvalidHexCharacter")
    ELSE Ok([i \in 1..(Len(s) \div 2) |-> 16 * HexVal(s[2 * i - 1]) + HexVal(s[2 * i])])

----------------------------------------------------------------------------
(* 256-bit unsigned integers (ethabi's Uint and Int are both U256) *)

WordLen == 32

IsZero(x) == \A i \in 1..Len(x) : x[i] = 0

\* Lexicographic comparison of two byte strings of one length: x > y.
Greater(x, y) ==
    \E i \in 1..Len(x) : x[i] > y[i] /\ \A j \in 1..(i - 1) : x[j] = y[j]

\* The arithmetic works on 16-bit limbs and four decimal digits at a time, the
\* same results as byte by byte and digit by digit in a quarter of the steps.
Limbs(x) == [i \in 1..(Len(x) \div 2) |-> x[2 * i - 1] * 256 + x[2 * i]]

Unlimbs(l) ==
    [i \in 1..(2 * Len(l)) |->
        IF i % 2 = 1 THEN l[(i + 1) \div 2] \div 256 ELSE l[i \div 2] % 256]

RECURSIVE DivMod(_, _, _, _, _)
\* l divided by d, most significant limb first: <<quotient, remainder>>.
DivMod(l, d, i, rem, q) ==
    IF i > Len(l) THEN <<q, rem>>
    ELSE LET cur == rem * 65536 + l[i]
         IN  DivMod(l, d, i + 1, cur % d, Append(q, cur \div d))

RECURSIVE NatToDec(_)
\* A natural number in decimal, without leading zeros.
NatToDec(n) ==
    IF n < 10 THEN <<LowerHex[n + 1]>> ELSE Append(NatToDec(n \div 10), LowerHex[(n % 10) + 1])

\* n < 10000 as four decimal digits.
FourDigits(n) ==
    <<LowerHex[(n \div 1000) + 1], LowerHex[((n \div 100) % 10) + 1],
      LowerHex[((n \div 10) % 10) + 1], LowerHex[(n % 10) + 1]>>

RECURSIVE ToDecimal(_, _)
ToDecimal(l, acc) ==
    LET dm == DivMod(l, 10000, 1, 0, <<>>)
    IN  IF IsZero(dm[1]) THEN NatToDec(dm[2]) \o acc
        ELSE ToDecimal(dm[1], FourDigits(dm[2]) \o acc)

\* U256's Display (i.to_string()): unsigned decimal text, "0" for zero.
U256_to_string(x) == ToDecimal(Limbs(x), <<>>)

RECURSIVE MulAdd(_, _, _, _, _)
\* l * m + carry, least significant limb first: <<the low 256 bits, the overflow>>.
MulAdd(l, m, i, carry, acc) ==
    IF i = 0 THEN <<acc, carry>>
    ELSE LET cur == l[i] * m + carry
         IN  MulAdd(l, m, i - 1, cur \div 65536, <<cur % 65536>> \o acc)

RECURSIVE DecValue(_, _, _)
\* The value of decimal digits s[i..j], at most four of them.
DecValue(s, i, j) == IF i > j THEN 0 ELSE DecValue(s, i, j - 1) * 10 + HexVal(s[j])

Pow10(k) == CASE k = 0 -> 1 [] k = 1 -> 10 [] k = 2 -> 100 [] k = 3 -> 1000 [] k = 4 -> 10000

RECURSIVE FromDec(_, _, _)
\* The value of the decimal digits s from i on, appended to l; an Err once the
\* value passes 2^256 - 1.
FromDec(s, i, l) ==
    IF i > Len(s) THEN Ok(l)
    ELSE LET k == IF (Len(s) - i + 1) % 4 = 0 THEN 4 ELSE (Len(s) - i + 1) % 4
             r == MulAdd(l, Pow10(k), Len(l), DecValue(s, i, i + k - 1), <<>>)
         IN  IF r[2] > 0 THEN Err("InvalidLength") ELSE FromDec(s, i + k, r[1])

\* U256::from_dec_str, digit by digit from the left: a character that is no
\* decimal digit is an Err, and so is a value over 2^256 - 1, whichever the
\* digits reach first.
U256_from_dec_str(s) ==
    LET bad == CHOOSE i \in 1..(Len(s) + 1) :
                    /\ (i <= Len(s) => ~IsDecChar(s[i]))
                    /\ \A j \in 1..(i - 1) : IsDecChar(s[j])
        r == FromDec(Take(s, bad - 1), 1, Limbs(Zeros(WordLen)))
    IN  IF r.st # "ok" THEN r
        ELSE IF bad <= Len(s) THEN Err("InvalidCharacter")
        ELSE Ok(Unlimbs(r.v))

\* !x + 1: the two's complement.
Negate(x) == Unlimbs(MulAdd(Limbs([i \in 1..Len(x) |-> 255 - x[i]]), 1, Len(x) \div 2, 1, <<>>)[1])

\* U256::max_value() / 2 = 2^255 - 1.
MaxInt == [i \in 1..WordLen |-> IF i = 1 THEN 127 ELSE 255]

\* 2^255, the magnitude of the least Int.
MaxIntPlus1 == [i \in 1..WordLen |-> IF i = 1 THEN 128 ELSE 0]

\* A small natural as a 32-byte big-endian word (pad_u32).
Word(n) ==
    [i \in 1..WordLen |->
        IF i = WordLen THEN n % 256
        ELSE IF i = WordLen - 1 THEN (n \div 256) % 256
        ELSE IF i = WordLen - 2 THEN (n \div 65536) % 256
        ELSE 0]

\* Rust's f64 Display of an integral value: decimal, a minus sign if negative.
f64_to_string(n) == IF n < 0 THEN <<"-">> \o NatToDec(-n) ELSE NatToDec(n)

----------------------------------------------------------------------------
(* ethabi's tokenizers of text *)

\* StrictTokenizer::tokenize_address (LenientTokenizer inherits it).
Tokenizer_tokenize_address(s) ==
    LET h == hex_decode(s)
    IN  IF h.st # "ok" THEN h
        ELSE IF Len(h.v) = 20 THEN h ELSE Err("InvalidData")

\* StrictTokenizer::tokenize_bytes.
Tokenizer_tokenize_bytes(s) == hex_decode(s)

\* StrictTokenizer::tokenize_fixed_bytes.
Tokenizer_tokenize_fixed_bytes(s, len) ==
    LET h == hex_decode(s)
    IN  IF h.st # "ok" THEN h
        ELSE IF Len(h.v) = len THEN h ELSE Err("InvalidData")

\* StrictTokenizer::tokenize_uint and tokenize_int: exactly 64 hex digits.
StrictTokenizer_tokenize_uint(s) ==
    LET h == hex_decode(s)
    IN  IF h.st # "ok" THEN h
        ELSE IF Len(h.v) = WordLen THEN h ELSE Err("InvalidData")

\* LenientTokenizer::tokenize_uint: the strict reading first, then decimal.
LenientTokenizer_tokenize_uint(s) ==
    LET strict == StrictTokenizer_tokenize_uint(s)
    IN  IF strict.st = "ok" THEN strict ELSE U256_from_dec_str(s)

\* LenientTokenizer::tokenize_int: the strict reading first, then signed decimal
\* within -2^255 .. 2^255 - 1.
LenientTokenizer_tokenize_int(s) ==
    LET strict == StrictTokenizer_tokenize_uint(s)
        neg == Len(s) > 0 /\ s[1] = "-"
        firstDigit == CHOOSE i \in 1..(Len(s) + 1) :
                        /\ (i <= Len(s) => s[i] # "-")
                        /\ \A j \in 1..(i - 1) : s[j] = "-"
        abs == U256_from_dec_str(Drop(s, firstDigit - 1))
    IN  IF strict.st = "ok" THEN strict
        ELSE IF abs.st # "ok" THEN abs
        ELSE IF neg
             THEN IF IsZero(abs.v) THEN abs
                  ELSE IF Greater(abs.v, MaxIntPlus1) THEN Err("int256 parse error: Underflow")
                  ELSE Ok(Negate(abs.v))
             ELSE IF Greater(abs.v, MaxInt) THEN Err("int256 parse error: Overflow")
                  ELSE abs

----------------------------------------------------------------------------
(* lib.rs: the hex helpers *)

\* &data_hex[..2] panics when the text is shorter than two bytes.
remove_hex_prefix(data_hex) ==
    IF Len(data_hex) < 2 THEN Panic("byte index 2 is out of bounds")
    ELSE IF Take(data_hex, 2) = <<"0", "x">> THEN Ok(Drop(data_hex, 2))
    ELSE Ok(data_hex)

\* &s[8..] panics when fewer than eight characters are left.
remove_bytes4(data_hex) ==
    LET s == remove_hex_prefix(data_hex)
    IN  IF s.st # "ok" THEN s
        ELSE IF Len(s.v) < 8 THEN Panic("byte index 8 is out of bounds")
        ELSE Ok(Drop(s.v, 8))

----------------------------------------------------------------------------
(* Type descriptors (ethabi's ParamType), Tokens and host (JS) values *)

\* ParamType: k the variant, n the size (FixedBytes, Uint, Int, FixedArray),
\* c the element type (Array, FixedArray) or the components (Tuple).
ParamType_Address == [k |-> "Address", n |-> 0, c |-> <<>>]

ParamType_String == [k |-> "String", n |-> 0, c |-> <<>>]

ParamType_Bool == [k |-> "Bool", n |-> 0, c |-> <<>>]

ParamType_Bytes == [k |-> "Bytes", n |-> 0, c |-> <<>>]

ParamType_FixedBytes(len) == [k |-> "FixedBytes", n |-> len, c |-> <<>>]

ParamType_Uint(bits) == [k |-> "Uint", n |-> bits, c |-> <<>>]

ParamType_Int(bits) == [k |-> "Int", n |-> bits, c |-> <<>>]

ParamType_Array(p) == [k |-> "Array", n |-> 0, c |-> <<p>>]

ParamType_FixedArray(p, len) == [k |-> "FixedArray", n |-> len, c |-> <<p>>]

ParamType_Tuple(ps) == [k |-> "Tuple", n |-> 0, c |-> ps]

\* Token: k the variant, b its bytes (Address, Bytes, FixedBytes, Uint, Int; Bool
\* as <<0>> or <<1>>), s its text (String), t its elements (Array, FixedArray, Tuple).
Token(k, b, s, t) == [k |-> k, b |-> b, s |-> s, t |-> t]

\* A host value: k its JS type, n a number or a boolean (0, 1), s the text of a
\* string, a the elements of an array or the field values of a keyed object.
JsString(s) == [k |-> "string", n |-> 0, s |-> s, a |-> <<>>]

JsNumber(n) == [k |-> "number", n |-> n, s |-> <<>>, a |-> <<>>]

JsBoolean(b) == [k |-> "boolean", n |-> IF b THEN 1 ELSE 0, s |-> <<>>, a |-> <<>>]

JsArray(a) == [k |-> "array", n |-> 0, s |-> <<>>, a |-> a]

JsObject(a) == [k |-> "object", n |-> 0, s |-> <<>>, a |-> a]

----------------------------------------------------------------------------
(* lib.rs: the tokenizer *)

DowncastPanic == Panic("unwrap on a failed downcast")

tokenize_address(value) ==
    IF value.k # "string" THEN DowncastPanic
    ELSE LET arg == remove_hex_prefix(value.s)
         IN  IF arg.st # "ok" THEN arg ELSE Tokenizer_tokenize_address(arg.v)

tokenize_string(value) ==
    IF value.k # "string" THEN DowncastPanic ELSE Ok(value.s)

tokenize_bool(value) ==
    IF value.k # "boolean" THEN DowncastPanic ELSE Ok(<<value.n>>)

tokenize_bytes(value) ==
    IF value.k # "string" THEN DowncastPanic
    ELSE LET arg == remove_hex_prefix(value.s)
         IN  IF arg.st # "ok" THEN arg ELSE Tokenizer_tokenize_bytes(arg.v)

tokenize_fixed_bytes(value, len) ==
    IF value.k # "string" THEN DowncastPanic
    ELSE LET arg == remove_hex_prefix(value.s)
         IN  IF arg.st # "ok" THEN arg ELSE Tokenizer_tokenize_fixed_bytes(arg.v, len)

tokenize_uint(value) ==
    IF value.k = "number" THEN LenientTokenizer_tokenize_uint(f64_to_string(value.n))
    ELSE IF value.k # "string" THEN DowncastPanic
    ELSE LenientTokenizer_tokenize_uint(value.s)

tokenize_int(value) ==
    IF value.k = "number" THEN LenientTokenizer_tokenize_int(f64_to_string(value.n))
    ELSE IF value.k # "string" THEN DowncastPanic
    ELSE LenientTokenizer_tokenize_int(value.s)

RECURSIVE tokenize(_, _)
RECURSIVE tokenize_array_from(_, _, _, _)
RECURSIVE tokenize_struct_from(_, _, _, _)

\* The loop of tokenize_array from element i on: every element against param,
\* stopping at the first element that fails.
tokenize_array_from(arr, param, i, result) ==
    IF i > Len(arr) THEN Ok(result)
    ELSE LET token == tokenize(param, arr[i])
         IN  IF token.st # "ok" THEN token
             ELSE tokenize_array_from(arr, param, i + 1, Append(result, token.v))

\* The declared length of a FixedArray is not an argument: tokenize drops it.
tokenize_array(value, param) ==
    IF value.k # "array" THEN DowncastPanic
    ELSE tokenize_array_from(value.a, param, 1, <<>>)

\* The loop of tokenize_struct from element i on: element i against params[i];
\* an element beyond the last param is Error::InvalidData.
tokenize_struct_from(arr, params, i, result) ==
    IF i > Len(arr) THEN Ok(result)
    ELSE IF i > Len(params) THEN Err("InvalidData")
    ELSE LET token == tokenize(params[i], arr[i])
         IN  IF token.st # "ok" THEN token
             ELSE tokenize_struct_from(arr, params, i + 1, Append(result, token.v))

tokenize_struct(value, params) ==
    IF value.k = "array" THEN tokenize_struct_from(value.a, params, 1, <<>>)
    ELSE Panic("Unsupported object structure, use an array of ordered values")

\* r.map(f) for a leaf: the Token built from the tokenizer's bytes.
MapBytes(r, k) == IF r.st # "ok" THEN r ELSE Ok(Token(k, r.v, <<>>, <<>>))

MapTokens(r, k) == IF r.st # "ok" THEN r ELSE Ok(Token(k, <<>>, <<>>, r.v))

tokenize(param, value) ==
    CASE param.k = "Address" -> MapBytes(tokenize_address(value), "Address")
      [] param.k = "String" ->
            LET r == tokenize_string(value)
            IN  IF r.st # "ok" THEN r ELSE Ok(Token("String", <<>>, r.v, <<>>))
      [] param.k = "Bool" -> MapBytes(tokenize_bool(value), "Bool")
      [] param.k = "Bytes" -> MapBytes(tokenize_bytes(value), "Bytes")
      [] param.k = "FixedBytes" -> MapBytes(tokenize_fixed_bytes(value, param.n), "FixedBytes")
      [] param.k = "Uint" -> MapBytes(tokenize_uint(value), "Uint")
      [] param.k = "Int" -> MapBytes(tokenize_int(value), "Int")
      [] param.k = "Array" -> MapTokens(tokenize_array(value, param.c[1]), "Array")
      [] param.k = "FixedArray" -> MapTokens(tokenize_array(value, param.c[1]), "FixedArray")
      [] param.k = "Tuple" -> MapTokens(tokenize_struct(value, param.c), "Tuple")

RECURSIVE tokenize_out(_)
\* Token -> host value. Uint and Int share one arm: both print as unsigned decimal.
tokenize_out(token) ==
    CASE token.k = "Bool" -> JsBoolean(token.b[1] = 1)
      [] token.k = "String" -> JsString(token.s)
      [] token.k = "Address" -> JsString(<<"0", "x">> \o hex_encode(token.b))
      [] token.k \in {"Bytes", "FixedBytes"} -> JsString(<<"0", "x">> \o hex_encode(token.b))
      [] token.k \in {"Uint", "Int"} -> JsString(U256_to_string(token.b))
      [] token.k \in {"Array", "FixedArray", "Tuple"} ->
            JsArray([i \in 1..Len(token.t) |-> tokenize_out(token.t[i])])

RECURSIVE parse_tokens_from(_, _, _)
parse_tokens_from(params, i, result) ==
    IF i > Len(params) THEN Ok(result)
    ELSE LET token == tokenize(params[i][1], params[i][2])
         IN  IF token.st # "ok" THEN token
             ELSE parse_tokens_from(params, i + 1, Append(result, token.v))

\* params: the (ParamType, value) pairs; the first failing pair decides.
parse_tokens(params) == parse_tokens_from(params, 1, <<>>)

----------------------------------------------------------------------------
(* ethabi's codec: the head/tail layout of the contract ABI *)

\* The characters of the model's texts and their UTF-8 (here ASCII) codes.
AsciiTable ==
    <<<<"-", 45>>, <<"0", 48>>, <<"1", 49>>, <<"2", 50>>, <<"3", 51>>, <<"4", 52>>,
      <<"5", 53>>, <<"6", 54>>, <<"7", 55>>, <<"8", 56>>, <<"9", 57>>, <<"?", 63>>,
      <<"A", 65>>, <<"B", 66>>, <<"C", 67>>, <<"D", 68>>, <<"E", 69>>, <<"F", 70>>,
      <<"a", 97>>, <<"b", 98>>, <<"c", 99>>, <<"d", 100>>, <<"e", 101>>, <<"f", 102>>,
      <<"h", 104>>, <<"i", 105>>, <<"x", 120>>, <<"z", 122>>>>

Ascii(c) == AsciiTable[CHOOSE i \in 1..Len(AsciiTable) : AsciiTable[i][1] = c][2]

\* String::from_utf8_lossy: a byte that is no character prints as a replacement.
FromAscii(b) ==
    IF \E i \in 1..Len(AsciiTable) : AsciiTable[i][2] = b
    THEN AsciiTable[CHOOSE i \in 1..Len(AsciiTable) : AsciiTable[i][2] = b][1]
    ELSE "?"

Utf8(s) == [i \in 1..Len(s) |-> Ascii(s[i])]

FromUtf8(bytes) == [i \in 1..Len(bytes) |-> FromAscii(bytes[i])]

\* pad_fixed_bytes: zero bytes up to the next multiple of 32.
PadRight(bytes) == bytes \o Zeros((WordLen - (Len(bytes) % WordLen)) % WordLen)

RECURSIVE Token_is_dynamic(_)
Token_is_dynamic(token) ==
    CASE token.k \in {"Bytes", "String", "Array"} -> TRUE
      [] token.k \in {"FixedArray", "Tuple"} ->
            \E i \in 1..Len(token.t) : Token_is_dynamic(token.t[i])
      [] OTHER -> FALSE

RECURSIVE ParamType_is_dynamic(_)
ParamType_is_dynamic(param) ==
    CASE param.k \in {"Bytes", "String", "Array"} -> TRUE
      [] param.k = "FixedArray" -> ParamType_is_dynamic(param.c[1])
      [] param.k = "Tuple" -> \E i \in 1..Len(param.c) : ParamType_is_dynamic(param.c[i])
      [] OTHER -> FALSE

RECURSIVE encode_token(_)
RECURSIVE encode_from(_, _, _, _, _)
RECURSIVE HeadLen(_, _)

\* The bytes the head slots of tokens[i..] take.
HeadLen(tokens, i) ==
    IF i > Len(tokens) THEN 0
    ELSE (IF Token_is_dynamic(tokens[i]) THEN WordLen ELSE Len(encode_token(tokens[i])))
         + HeadLen(tokens, i + 1)

\* One token's own bytes: a word for a static leaf, length-prefixed content for
\* Bytes, String and Array, the elements' head/tail layout for FixedArray and Tuple.
encode_token(token) ==
    CASE token.k = "Address" -> Zeros(12) \o token.b
      [] token.k = "Bool" -> Word(token.b[1])
      [] token.k \in {"Uint", "Int"} -> token.b
      [] token.k = "FixedBytes" -> PadRight(token.b)
      [] token.k = "Bytes" -> Word(Len(token.b)) \o PadRight(token.b)
      [] token.k = "String" -> Word(Len(token.s)) \o PadRight(Utf8(token.s))
      [] token.k = "Array" ->
            Word(Len(token.t)) \o encode_from(token.t, 1, HeadLen(token.t, 1), <<>>, <<>>)
      [] token.k \in {"FixedArray", "Tuple"} ->
            encode_from(token.t, 1, HeadLen(token.t, 1), <<>>, <<>>)

\* Heads then tails: a dynamic token's head is the offset of its tail.
encode_from(tokens, i, headLen, heads, tails) ==
    IF i > Len(tokens) THEN heads \o tails
    ELSE IF Token_is_dynamic(tokens[i])
         THEN encode_from(tokens, i + 1, headLen,
                          heads \o Word(headLen + Len(tails)),
                          tails \o encode_token(tokens[i]))
         ELSE encode_from(tokens, i + 1, headLen, heads \o encode_token(tokens[i]), tails)

\* ethabi::encode.
encode(tokens) == encode_from(tokens, 1, HeadLen(tokens, 1), <<>>, <<>>)

RECURSIVE Token_type_check(_, _)
\* Token::type_check: the variant, FixedBytes no longer than declared, a
\* FixedArray of the declared length; a Tuple's tokens are checked against the
\* components at their positions.
Token_type_check(token, param) ==
    CASE token.k \in {"Address", "Bytes", "Bool", "String", "Uint", "Int"} -> param.k = token.k
      [] token.k = "FixedBytes" -> param.k = "FixedBytes" /\ param.n >= Len(token.b)
      [] token.k = "Array" ->
            /\ param.k = "Array"
            /\ \A i \in 1..Len(token.t) : Token_type_check(token.t[i], param.c[1])
      [] token.k = "FixedArray" ->
            /\ param.k = "FixedArray"
            /\ param.n = Len(token.t)
            /\ \A i \in 1..Len(token.t) : Token_type_check(token.t[i], param.c[1])
      [] token.k = "Tuple" ->
            /\ param.k = "Tuple"
            /\ \A i \in 1..Len(token.t) :
                    i <= Len(param.c) /\ Token_type_check(token.t[i], param.c[i])

Token_types_check(tokens, params) ==
    /\ Len(tokens) = Len(params)
    /\ \A i \in 1..Len(tokens) : Token_type_check(tokens[i], params[i])

\* peek_32_bytes: a read past the end of the buffer is an Err.
peek_32_bytes(data, offset) ==
    IF offset + WordLen > Len(data) THEN Err("InvalidData")
    ELSE Ok(SubSeq(data, offset + 1, offset + WordLen))

take_bytes(data, offset, len) ==
    IF offset + len > Len(data) THEN Err("InvalidData")
    ELSE Ok(SubSeq(data, offset + 1, offset + len))

\* A value no buffer of the model reaches: what as_usize yields for a word whose
\* value is 2^24 or more.
Huge == 256 * 65536

\* as_usize: a word as a length or an offset; over 32 bits is an Err.
as_usize(slice) ==
    IF \E i \in 1..28 : slice[i] # 0 THEN Err("InvalidData")
    ELSE IF slice[29] # 0 THEN Ok(Huge)
    ELSE Ok(slice[30] * 65536 + slice[31] * 256 + slice[32])

\* The offset or length read at offset, as a Result.
peek_usize(data, offset) ==
    LET w == peek_32_bytes(data, offset)
    IN  IF w.st # "ok" THEN w ELSE as_usize(w.v)

RECURSIVE decode_param(_, _, _)
RECURSIVE decode_elems(_, _, _, _, _, _)

\* count tokens from tail, from offset on: element j against params[j], or
\* against the one element type of an array. Yields <<tokens, new_offset>>.
decode_elems(params, same, count, tail, offset, tokens) ==
    IF Len(tokens) = count THEN Ok(<<tokens, offset>>)
    ELSE LET p == IF same THEN params[1] ELSE params[Len(tokens) + 1]
             res == decode_param(p, tail, offset)
         IN  IF res.st # "ok" THEN res
             ELSE decode_elems(params, same, count, tail, res.v[2], Append(tokens, res.v[1]))

\* decode_param: <<token, new_offset>> or an Err.
decode_param(param, data, offset) ==
    CASE param.k = "Address" ->
            LET w == peek_32_bytes(data, offset)
            IN  IF w.st # "ok" THEN w
                ELSE Ok(<<Token("Address", Drop(w.v, 12), <<>>, <<>>), offset + WordLen>>)
      [] param.k \in {"Uint", "Int"} ->
            LET w == peek_32_bytes(data, offset)
            IN  IF w.st # "ok" THEN w
                ELSE Ok(<<Token(param.k, w.v, <<>>, <<>>), offset + WordLen>>)
      [] param.k = "Bool" ->
            LET w == peek_32_bytes(data, offset)
            IN  IF w.st # "ok" THEN w
                ELSE IF \E i \in 1..31 : w.v[i] # 0 THEN Err("InvalidData")
                ELSE Ok(<<Token("Bool", <<IF w.v[32] = 1 THEN 1 ELSE 0>>, <<>>, <<>>),
                          offset + WordLen>>)
      [] param.k = "FixedBytes" ->
            LET w == peek_32_bytes(data, offset)
            IN  IF w.st # "ok" THEN w
                ELSE Ok(<<Token("FixedBytes", Take(w.v, param.n), <<>>, <<>>), offset + WordLen>>)
      [] param.k \in {"Bytes", "String"} ->
            LET dynamic_offset == peek_usize(data, offset)
                len == peek_usize(data, dynamic_offset.v)
                bytes == take_bytes(data, dynamic_offset.v + WordLen, len.v)
            IN  IF dynamic_offset.st # "ok" THEN dynamic_offset
                ELSE IF len.st # "ok" THEN len
                ELSE IF bytes.st # "ok" THEN bytes
                ELSE IF param.k = "Bytes"
                     THEN Ok(<<Token("Bytes", bytes.v, <<>>, <<>>), offset + WordLen>>)
                     ELSE Ok(<<Token("String", <<>>, FromUtf8(bytes.v), <<>>), offset + WordLen>>)
      [] param.k = "Array" ->
            LET len_offset == peek_usize(data, offset)
                len == peek_usize(data, len_offset.v)
                tail == Drop(data, len_offset.v + WordLen)
                res == decode_elems(param.c, TRUE, len.v, tail, 0, <<>>)
            IN  IF len_offset.st # "ok" THEN len_offset
                ELSE IF len.st # "ok" THEN len
                ELSE IF res.st # "ok" THEN res
                ELSE Ok(<<Token("Array", <<>>, <<>>, res.v[1]), offset + WordLen>>)
      [] param.k \in {"FixedArray", "Tuple"} ->
            LET is_dynamic == ParamType_is_dynamic(param)
                at == IF is_dynamic THEN peek_usize(data, offset) ELSE Ok(0)
                tail == IF is_dynamic THEN Drop(data, at.v) ELSE data
                start == IF is_dynamic THEN 0 ELSE offset
                same == param.k = "FixedArray"
                count == IF same THEN param.n ELSE Len(param.c)
                res == decode_elems(param.c, same, count, tail, start, <<>>)
            IN  IF at.st # "ok" THEN at
                ELSE IF at.v > Len(data) THEN Err("InvalidData")
                ELSE IF res.st # "ok" THEN res
                ELSE Ok(<<Token(param.k, <<>>, <<>>, res.v[1]),
                          IF is_dynamic THEN offset + WordLen ELSE res.v[2]>>)

\* ethabi::decode: the tokens of the declared types, read from offset 0.
decode(types, data) ==
    LET res == decode_elems(types, FALSE, Len(types), data, 0, <<>>)
    IN  IF res.st # "ok" THEN res ELSE Ok(res.v[1])

----------------------------------------------------------------------------
(* ethabi's Contract and Function *)

Function(name, selector, inputs, outputs) ==
    [name |-> name, selector |-> selector, inputs |-> inputs, outputs |-> outputs]

NoFunction == Function("", <<>>, <<>>, <<>>)

\* No entry under an id: HashMap::get yields None.
NoContract == [loaded |-> FALSE, functions |-> <<>>]

Contract(functions) == [loaded |-> TRUE, functions |-> functions]

\* Contract::functions_by_name: the functions declared under name, in the order
\* of declaration, or Error::InvalidName.
functions_by_name(contract, name) ==
    LET found == SelectSeq(contract.functions, LAMBDA f : f.name = name)
    IN  IF found = <<>> THEN Err("InvalidName") ELSE Ok(found)

\* Function::encode_input: the tokens are type-checked, then the selector and
\* the encoded tokens.
Function_encode_input(function, tokens) ==
    IF ~Token_types_check(tokens, function.inputs) THEN Err("InvalidData")
    ELSE Ok(function.selector \o encode(tokens))

Function_decode_input(function, data) == decode(function.inputs, data)

Function_decode_output(function, data) == decode(function.outputs, data)

----------------------------------------------------------------------------
(* The interface descriptions the host registers *)

Erc20Json ==
    <<Function("transfer", <<169, 5, 156, 187>>,
               <<ParamType_Address, ParamType_Uint(256)>>, <<ParamType_Bool>>),
      Function("transfer", <<190, 69, 253, 98>>,
               <<ParamType_Address, ParamType_Uint(256), ParamType_Bytes>>, <<ParamType_Bool>>),
      Function("name", <<6, 253, 222, 3>>, <<>>, <<ParamType_String>>),
      Function("delta", <<18, 201, 11, 162>>, <<ParamType_Int(256)>>, <<ParamType_Int(256)>>)>>

VaultJson ==
    <<Function("deposit", <<71, 226, 122, 63>>,
               <<ParamType_Tuple(<<ParamType_Address, ParamType_Uint(256)>>),
                 ParamType_FixedArray(ParamType_Uint(256), 2)>>,
               <<ParamType_FixedBytes(4), ParamType_Bytes>>),
      Function("note", <<80, 9, 184, 240>>, <<ParamType_String>>, <<ParamType_Uint(256)>>),
      Function("transfer", <<18, 81, 75, 186>>, <<ParamType_Uint(256)>>, <<ParamType_Bool>>)>>

\* The descriptions by name; "NotJson" is text that is no interface description.
Descriptions == {"Erc20Json", "VaultJson", "NotJson"}

\* Contract::load: the parsed description, or an Err for text that does not parse.
Contract_load(abi_json) ==
    CASE abi_json = "Erc20Json" -> Ok(Contract(Erc20Json))
      [] abi_json = "VaultJson" -> Ok(Contract(VaultJson))
      [] OTHER -> Err("serde_json: expected value")

----------------------------------------------------------------------------
(* lib.rs: the exported functions *)

Ids == {"a", "b"}

\* The values a call hands over and the values it hands back.
Call(op, id, name, args, data) ==
    [op |-> op, id |-> id, name |-> name, args |-> args, data |-> data]

\* fn: the Function the lookup cloned (NoFunction when there was none); old: the
\* entry HashMap::insert replaced and returned, which load_abi drops.
Ret(r, fn, old) == [st |-> r.st, e |-> r.e, v |-> r.v, fn |-> fn, old |-> old]

\* INSTANCE.get().unwrap().lock().unwrap(): a poisoned mutex makes lock() an Err
\* and the unwrap a panic.
lock == IF poisoned THEN Panic("PoisonError") ELSE Ok(registry)

\* The lookup of encode_input, decode_output and decode_input, one statement:
\* lock, get(&id).unwrap(), functions_by_name(..).unwrap()[0].clone().
lookup(id, function_signature) ==
    LET guard == lock
        contract == guard.v[id]
        functions == functions_by_name(contract, function_signature)
    IN  IF guard.st # "ok" THEN guard
        ELSE IF ~contract.loaded THEN Panic("called Option::unwrap() on a None value")
        ELSE IF functions.st # "ok" THEN Unwrap(functions)
        ELSE Ok(functions.v[1])

\* A panic while the MutexGuard is alive poisons the mutex as the guard is
\* dropped in the unwinding; the guard is a temporary of the statement r ran in.
PoisonedBy(r) == poisoned \/ r.st = "panic"

\* zip of the declared input types with the arguments: as long as the shorter.
zip(inputs, args_vec) ==
    [i \in 1..(IF Len(inputs) < Len(args_vec) THEN Len(inputs) ELSE Len(args_vec)) |->
        <<inputs[i], args_vec[i]>>]

\* encode_input after the lookup: zip, parse_tokens(..).unwrap(),
\* function.encode_input(..).unwrap(), hex::encode.
encode_input_body(function, args_vec) ==
    LET params == zip(function.inputs, args_vec)
        tokens == Unwrap(parse_tokens(params))
        encoded == Unwrap(Function_encode_input(function, tokens.v))
    IN  IF tokens.st # "ok" THEN tokens
        ELSE IF encoded.st # "ok" THEN encoded
        ELSE Ok(hex_encode(encoded.v))

\* The host array of the decoded tokens; tokenize_out never fails.
ResultArray(tokens) == [i \in 1..Len(tokens) |-> tokenize_out(tokens[i])]

\* decode_output after the lookup.
decode_output_body(function, data_hex) ==
    LET text == remove_hex_prefix(data_hex)
        data == Unwrap(hex_decode(text.v))
        tokens == Unwrap(Function_decode_output(function, data.v))
    IN  IF text.st # "ok" THEN text
        ELSE IF data.st # "ok" THEN data
        ELSE IF tokens.st # "ok" THEN tokens
        ELSE Ok(ResultArray(tokens.v))

\* decode_input after the lookup.
decode_input_body(function, data_hex) ==
    LET text == remove_bytes4(data_hex)
        data == Unwrap(hex_decode(text.v))
        tokens == Unwrap(Function_decode_input(function, data.v))
    IN  IF text.st # "ok" THEN text
        ELSE IF data.st # "ok" THEN data
        ELSE IF tokens.st # "ok" THEN tokens
        ELSE Ok(ResultArray(tokens.v))

\* A map that keeps an entry it already holds (the slip of writing
\* entry(id).or_insert(..) for insert).
insert_if_absent(map, id, contract) ==
    IF map[id].loaded THEN map ELSE [map EXCEPT ![id] = contract]

\* HashMap::insert: the entry under id is set, whatever was there before; every
\* other entry stays.
insert(map, id, contract) == [map EXCEPT ![id] = contract]

\* loadAbi(id, abi_json). The guard is taken before Contract::load(..).unwrap()
\* is evaluated as insert's argument.
load_abi(id, abi_json) ==
    LET guard == lock
        contract == Unwrap(Contract_load(abi_json))
    IN  /\ call' = Call("loadAbi", id, abi_json, <<>>, <<>>)
        /\ IF guard.st # "ok"
           THEN /\ ret' = Ret(guard, NoFunction, NoContract)
                /\ UNCHANGED <<registry, poisoned>>
           ELSE IF contract.st # "ok"
           THEN /\ ret' = Ret(contract, NoFunction, NoContract)
                /\ poisoned' = PoisonedBy(contract)
                /\ UNCHANGED registry
           ELSE /\ registry' = insert(guard.v, id, contract.v)
                /\ ret' = Ret(Ok(<<>>), NoFunction, guard.v[id])
                /\ UNCHANGED poisoned

\* encodeInput(id, function_signature, args).
encode_input(id, function_signature, args_vec) ==
    LET function == lookup(id, function_signature)
    IN  /\ call' = Call("encodeInput", id, function_signature, args_vec, <<>>)
        /\ IF function.st # "ok"
           THEN /\ ret' = Ret(function, NoFunction, NoContract)
                /\ poisoned' = PoisonedBy(function)
           ELSE /\ ret' = Ret(encode_input_body(function.v, args_vec), function.v, NoContract)
                /\ UNCHANGED poisoned
        /\ UNCHANGED registry

\* decodeOutput(id, function_signature, data_hex).
decode_output(id, function_signature, data_hex) ==
    LET function == lookup(id, function_signature)
    IN  /\ call' = Call("decodeOutput", id, function_signature, <<>>, data_hex)
        /\ IF function.st # "ok"
           THEN /\ ret' = Ret(function, NoFunction, NoContract)
                /\ poisoned' = PoisonedBy(function)
           ELSE /\ ret' = Ret(decode_output_body(function.v, data_hex), function.v, NoContract)
                /\ UNCHANGED poisoned
        /\ UNCHANGED registry

\* decodeInput(id, function_signature, data_hex).
decode_input(id, function_signature, data_hex) ==
    LET function == lookup(id, function_signature)
    IN  /\ call' = Call("decodeInput", id, function_signature, <<>>, data_hex)
        /\ IF function.st # "ok"
           THEN /\ ret' = Ret(function, NoFunction, NoContract)
                /\ poisoned' = PoisonedBy(function)
           ELSE /\ ret' = Ret(decode_input_body(function.v, data_hex), function.v, NoContract)
                /\ UNCHANGED poisoned
        /\ UNCHANGED registry

----------------------------------------------------------------------------
(* The host's inputs *)

\* How many arguments beyond a list's own a call may pass.
MaxExtra == 1

\* How many characters a payload may be cut short by.
MaxCut == 2

With0x(s) == <<"0", "x">> \o s

Addr1 == JsString(With0x(hex_encode(Zeros(19) \o <<1>>)))

Thousand == JsString(<<"1", "0", "0", "0">>)

One == JsString(<<"1">>)

Two == JsNumber(2)

Hi == JsString(<<"h", "i">>)

Pair == JsArray(<<Addr1, Thousand>>)

Amounts == JsArray(<<One, Two>>)

\* {"a": 1}
Keyed == JsObject(<<JsNumber(1)>>)

\* The argument lists tried with each function name, well-formed and not.
BaseArgs(name) ==
    CASE name = "transfer" ->
            { <<>>, <<Addr1>>, <<Addr1, Thousand>>, <<Addr1, JsNumber(1000)>>,
              <<JsString(<<>>), Thousand>>, <<JsBoolean(TRUE), Thousand>>,
              <<Thousand>>, <<JsNumber(-1)>> }
      [] name = "delta" -> { <<JsNumber(-1)>>, <<Thousand>> }
      [] name = "note" -> { <<Hi>> }
      [] name = "deposit" ->
            { <<Pair, Amounts>>,
              <<Keyed, Amounts>>,
              <<JsArray(<<Addr1>>), Amounts>>,
              <<Pair, JsArray(<<One>>)>>,
              <<JsArray(<<Addr1, Thousand, One>>), Amounts>>,
              <<Pair, JsArray(<<One, Two, One>>)>> }
      [] OTHER -> { <<>> }

Extra == JsString(With0x(<<"d", "e", "a", "d">>))

ArgLists(name) == { a \o [i \in 1..k |-> Extra] : a \in BaseArgs(name), k \in 0..MaxExtra }

MinusOne == [i \in 1..WordLen |-> 255]

\* 10^63: its decimal text has 64 digits.
TenTo63 ==
    <<0, 0, 0, 0, 0, 2, 110, 77, 48, 236, 204, 50, 21, 221, 143, 49,
      87, 210, 126, 35, 172, 189, 207, 230, 128, 0, 0, 0, 0, 0, 0, 0>>

\* Well-formed return data of the functions of each name.
OutputPayloads(name) ==
    CASE name = "transfer" -> { Word(1) }
      [] name = "delta" -> { MinusOne, Word(1000) }
      [] name = "note" -> { TenTo63 }
      [] name = "name" -> { encode(<<Token("String", <<>>, <<"h", "i">>, <<>>)>>) }
      [] name = "deposit" ->
            { encode(<<Token("FixedBytes", <<222, 173, 190, 239>>, <<>>, <<>>),
                       Token("Bytes", <<1, 2, 3>>, <<>>, <<>>)>>) }
      [] OTHER -> { <<>> }

\* Well-formed call data of the functions of each name.
InputPayloads(name) ==
    CASE name = "transfer" ->
            { Erc20Json[1].selector
                \o encode(<<Token("Address", Zeros(19) \o <<1>>, <<>>, <<>>),
                            Token("Uint", Word(1000), <<>>, <<>>)>>) }
      [] name = "delta" -> { Erc20Json[4].selector \o MinusOne }
      [] name = "note" ->
            { VaultJson[2].selector \o encode(<<Token("String", <<>>, <<"h", "i">>, <<>>)>>) }
      [] OTHER -> { <<>> }

Cuts(s) == { Take(s, Len(s) - c) : c \in 0..(IF MaxCut < Len(s) THEN MaxCut ELSE Len(s)) }

\* Texts that are no payload at all: empty, one character, a bare prefix, three
\* bytes, characters that are no hex digits.
Malformed ==
    { <<>>, <<"0">>, <<"0", "x">>, <<"a", "9", "0", "5", "9", "c">>,
      With0x(<<"z", "z", "z", "z", "z", "z", "z", "z", "z", "z">>) }

\* The data texts of payloads: each as hex, whole with and without 0x, and cut short.
Texts(payloads) == UNION { Cuts(hex_encode(p)) \cup {With0x(hex_encode(p))} : p \in payloads }

OutputTexts(name) ==
    Texts(OutputPayloads(name)) \cup (IF name = "transfer" THEN Malformed ELSE {})

InputTexts(name) ==
    Texts(InputPayloads(name)) \cup (IF name = "transfer" THEN Malformed ELSE {})

Names == {"transfer", "name", "delta", "note", "deposit", "missing"}

----------------------------------------------------------------------------
(* The state machine *)

\* register_module!: INSTANCE is set to an empty map behind a fresh mutex.
Init ==
    /\ registry = [id \in Ids |-> NoContract]
    /\ poisoned = FALSE
    /\ call = Call("none", "", "", <<>>, <<>>)
    /\ ret = Ret(Ok(<<>>), NoFunction, NoContract)

Next ==
    \/ \E id \in Ids, abi_json \in Descriptions : load_abi(id, abi_json)
    \/ \E id \in Ids, name \in Names :
            \E args \in ArgLists(name) : encode_input(id, name, args)
    \/ \E id \in Ids, name \in Names :
            \E data \in OutputTexts(name) : decode_output(id, name, data)
    \/ \E id \in Ids, name \in Names :
            \E data \in InputTexts(name) : decode_input(id, name, data)

Spec == Init /\ [][Next]_vars

----------------------------------------------------------------------------
(* Observations of a state *)

Lookups == {"encodeInput", "decodeOutput", "decodeInput"}

\* The last call found its function: ret.fn is the Function it worked with.
Found == call.op \in Lookups /\ ret.fn # NoFunction

\* The (ParamType, value) pairs the last encodeInput tokenized.
Pairs == zip(ret.fn.inputs, call.args)

RECURSIVE SameArity(_, _)
\* The token has the variant and, at every level, the arity of the type.
SameArity(token, param) ==
    /\ token.k = param.k
    /\ CASE param.k = "Array" ->
                \A i \in 1..Len(token.t) : SameArity(token.t[i], param.c[1])
         [] param.k = "FixedArray" ->
                /\ Len(token.t) = param.n
                /\ \A i \in 1..Len(token.t) : SameArity(token.t[i], param.c[1])
         [] param.k = "Tuple" ->
                /\ Len(token.t) = Len(param.c)
                /\ \A i \in 1..Len(token.t) : SameArity(token.t[i], param.c[i])
         [] OTHER -> TRUE

\* The first function the contract declares under name.
FirstDeclared(contract, name) == functions_by_name(contract, name).v[1]

----------------------------------------------------------------------------
(* The claims *)

\* C1: tokenizing a host value that is no ordered sequence (the keyed object
\* {"a": 1}) against a Tuple type ends with a typed error handed back as an error
\* value: no panic and no Token.
C1_KeyedObjectIsATypedError ==
    (call.op = "encodeInput" /\ Found) =>
        \A i \in 1..Len(Pairs) :
            (Pairs[i][1].k = "Tuple" /\ Pairs[i][2].k # "array") =>
                tokenize(Pairs[i][1], Pairs[i][2]).st = "err"

\* C2: every Token that tokenize returns has the nested arity of the type it was
\* tokenized against: a FixedArray(elem, n) token has n elements and a Tuple token
\* as many as the type has components; a shorter or longer sequence yields no Token.
C2_TokenHasTheArityOfItsType ==
    (call.op = "encodeInput" /\ Found) =>
        \A i \in 1..Len(Pairs) :
            LET r == tokenize(Pairs[i][1], Pairs[i][2])
            IN  r.st = "ok" => SameArity(r.v, Pairs[i][1])

\* C3: for every data text, decodeOutput and decodeInput hand back the decoded
\* values or a typed error; they never panic.
C3_DecodingNeverPanics ==
    (call.op \in {"decodeOutput", "decodeInput"} /\ Found) => ret.st # "panic"

\* C4: a call that names an interface id never registered, or a function name the
\* registered interface does not declare, is answered with a not-found error
\* value, not with a panic.
C4_UnknownNamesAreNotFoundErrors ==
    (/\ call.op \in Lookups
     /\ \/ ~registry[call.id].loaded
        \/ functions_by_name(registry[call.id], call.name).st # "ok")
    => ret.st = "err"

\* C5: the text encodeInput returns is 0x followed by the hex of the selector and
\* the encoded arguments.
C5_EncodedTextStartsWith0x ==
    (call.op = "encodeInput" /\ ret.st = "ok") =>
        /\ Len(ret.v) >= 2
        /\ Take(ret.v, 2) = <<"0", "x">>
        /\ Drop(ret.v, 2) = hex_encode(ret.fn.selector \o encode(parse_tokens(Pairs).v))

\* C6: round trip: whenever the arguments tokenize and encodeInput returns a text,
\* decoding the encoded tokens yields those tokens again, and decodeInput of the
\* text returns the values of those tokens.
C6_DecodeInvertsEncode ==
    (call.op = "encodeInput" /\ ret.st = "ok") =>
        LET tokens == parse_tokens(Pairs).v
            decoded == decode(ret.fn.inputs, encode(tokens))
            back == decode_input_body(ret.fn, ret.v)
        IN  /\ decoded.st = "ok"
            /\ decoded.v = tokens
            /\ back.st = "ok"
            /\ back.v = ResultArray(tokens)

\* C7: the values decodeOutput returns are accepted when tokenized again as
\* input of the same types, and encode to the bytes they were decoded from.
C7_OutputTokenizesBackToItsBytes ==
    (call.op = "decodeOutput" /\ ret.st = "ok") =>
        LET data == hex_decode(remove_hex_prefix(call.data).v).v
            tokens == Function_decode_output(ret.fn, data).v
            again == parse_tokens(zip(ret.fn.outputs, ret.v))
        IN  /\ again.st = "ok"
            /\ encode(again.v) = encode(tokens)

\* C8: a registration that succeeds sets the entry under its id to the
\* description it was given, whatever was there, and leaves every other entry as
\* it was; no other call changes an entry; and a lookup that finds a function
\* finds the first one declared under that name in the entry of its id.
C8_LookupSeesTheLatestRegistration ==
    [][/\ (call'.op = "loadAbi" /\ ret'.st = "ok") =>
            /\ registry'[call'.id] = Contract_load(call'.name).v
            /\ ret'.old = registry[call'.id]
            /\ \A other \in Ids \ {call'.id} : registry'[other] = registry[other]
       /\ (call'.op # "loadAbi" \/ ret'.st # "ok") => registry' = registry
       /\ (call'.op \in Lookups /\ ret'.fn # NoFunction) =>
            /\ registry[call'.id].loaded
            /\ ret'.fn = FirstDeclared(registry[call'.id], call'.name)]_vars

\* A registration has just replaced the entry under its id with another
\* description while the other id holds an entry of its own.
C8_Witness_Overwritten ==
    /\ call.op = "loadAbi"
    /\ ret.st = "ok"
    /\ ret.old.loaded
    /\ ret.old # registry[call.id]
    /\ \E other \in Ids \ {call.id} : registry[other].loaded /\ registry[other] # registry[call.id]

\* C9: a call that fails leaves the registry's entries as they were and its lock
\* acquirable.
C9_FailureLeavesTheRegistryUsable ==
    [][ret'.st # "ok" => (registry' = registry /\ ~poisoned')]_vars

\* C10: encodeInput returns a text only when it was given exactly as many
\* arguments as the function declares inputs.
C10_ArgumentCountIsChecked ==
    (call.op = "encodeInput" /\ ret.st = "ok") => Len(call.args) = Len(ret.fn.inputs)

====
